---- MODULE Spec2Model ----
(***************************************************************************)
(* The session coordinator and relay engine of BitStyleMessagingApp        *)
(* (src/app.py): the Flask-SocketIO handlers join, disconnect, message and *)
(* public_key over the module-level state users / user_sid_map and the     *)
(* sqlite table messages.                                                  *)
(***************************************************************************)
EXTENDS Integers, Sequences, FiniteSets, TLC

(* ----------------------------- bounds ---------------------------------- *)

\* Number of transport connections (socket ids) that ever connect.
MaxSid == 3

\* Cap on the number of rows of the messages table.
MaxMsgs == 2

\* Largest number of rows the messages table holds when the server starts.
MaxRows == 51

\* Where the handlers of joins and of messages interleave: how many
\* connections are made and how many messages are saved.
MaxRelaySid == 2
MaxRelayMsgs == 1

(* ------------------------ values and constants ------------------------- *)

Sids == 1 .. MaxSid

\* Python's None: what dict.get returns for an absent key.
None == "<None>"

\* Values data.get('username') yields on the joins clients send.
Usernames == {"alice", "bob", ""}

\* A message payload; an absent field reads as None (data.get).
Payload(u, e, t) == [username |-> u, encrypted |-> e, timestamp |-> t]

\* The payloads clients send: complete ones, one with an empty ciphertext,
\* and one lacking each field.
Payloads ==
    {Payload("alice", "c1", "t1"), Payload("bob", "c1", "t1"),
     Payload("alice", "", "t1"), Payload("alice", None, "t1"),
     Payload("alice", "c1", None), Payload(None, "c1", "t1")}

\* Opaque key blobs of the public_key event.
Keys == {"k1"}

\* len(user_sid_map) >= 2
RoomCapacity == 2

\* get_messages(limit=50)
HistoryLimit == 50

\* Python truthiness of a str-or-None value.
Truthy(x) == x # None /\ x # ""

\* f'{username}': str() of a str-or-None value.
Str(x) == IF x = None THEN "None" ELSE x

Min(a, b) == IF a <= b THEN a ELSE b

RECURSIVE Reverse(_)
\* rows[::-1]
Reverse(s) == IF s = <<>> THEN <<>> ELSE Append(Reverse(Tail(s)), Head(s))

(* ------------------- user_sid_map: an ordered dict --------------------- *)
\* A Python dict keeps insertion order: a sequence of [sid, username] items
\* with pairwise distinct sids.

\* sid in user_sid_map
InMap(m, sid) == \E i \in DOMAIN m : m[i].sid = sid

\* user_sid_map.get(sid)
Get(m, sid) ==
    IF InMap(m, sid) THEN (CHOOSE e \in {m[i] : i \in DOMAIN m} : e.sid = sid).username
    ELSE None

\* user_sid_map[sid] = username
SetItem(m, sid, username) ==
    IF InMap(m, sid)
    THEN [i \in DOMAIN m |-> IF m[i].sid = sid THEN [sid |-> sid, username |-> username] ELSE m[i]]
    ELSE Append(m, [sid |-> sid, username |-> username])

\* del user_sid_map[sid]
DelItem(m, sid) == SelectSeq(m, LAMBDA e : e.sid # sid)

\* The keys and the values of the dict.
MapSids(m) == {m[i].sid : i \in DOMAIN m}
MapNames(m) == {m[i].username : i \in DOMAIN m}

(* ------------------------------ state ---------------------------------- *)

VARIABLES
    users,          \* users = set()
    user_sid_map,   \* user_sid_map = {}
    messages,       \* rows of the sqlite table messages, in id order
    rooms,          \* sids the Socket.IO server holds in room 'main_room'
    conn,           \* transport state of each sid: "new", "open", "closed"
    out,            \* what the last step emitted, in order
    last,           \* the event whose handler ran last
    pc,             \* where the handler running for each sid stands
    loc,            \* the local variable username of that handler
    inbox           \* the chat window of each client, where recorded

vars == <<users, user_sid_map, messages, rooms, conn, out, last, pc, loc, inbox>>

\* The server state a handler reads and writes, as one record.
Cur ==
    [users |-> users, user_sid_map |-> user_sid_map, messages |-> messages,
     rooms |-> rooms, conn |-> conn, out |-> <<>>]

Install(st) ==
    /\ users' = st.users
    /\ user_sid_map' = st.user_sid_map
    /\ messages' = st.messages
    /\ rooms' = st.rooms
    /\ conn' = st.conn
    /\ out' = st.out

(* ---------------------------- Socket.IO -------------------------------- *)

\* An emit reaches the sids of its room whose connection is open.
Recipients(st, sids) == {s \in sids : st.conn[s] = "open"}

\* emit(name, data, room=room)
EmitRoom(st, name, data) ==
    [st EXCEPT !.out = Append(@, [name |-> name, data |-> data, to |-> Recipients(st, st.rooms)])]

\* A faulty emit: room=room where room=sid is meant.
EmitSidToRoom(st, name, data, sid) ==
    [st EXCEPT !.out = Append(@, [name |-> name, data |-> data, to |-> Recipients(st, st.rooms)])]

\* emit(name, data, room=sid)
EmitSid(st, name, data, sid) ==
    [st EXCEPT !.out = Append(@, [name |-> name, data |-> data, to |-> Recipients(st, {sid})])]

\* join_room(room)
join_room(st, sid) == [st EXCEPT !.rooms = @ \cup {sid}]

(* ---------------------------- persistence ------------------------------ *)

\* A faulty insert: a row the table already holds is not stored again.
save_message_dedup(st, username, encrypted, timestamp) ==
    IF \E i \in DOMAIN st.messages : st.messages[i] = <<username, encrypted, timestamp>>
    THEN st
    ELSE [st EXCEPT !.messages = Append(@, <<username, encrypted, timestamp>>)]

\* INSERT INTO messages (username, encrypted, timestamp) VALUES (?, ?, ?)
save_message(st, username, encrypted, timestamp) ==
    [st EXCEPT !.messages = Append(@, <<username, encrypted, timestamp>>)]

\* A faulty read: ORDER BY id ASC, the oldest rows are taken.
get_messages_oldest_first(rows, limit) ==
    Reverse(SubSeq(rows, 1, Min(limit, Len(rows))))

\* A faulty read: the rows stay newest first (the final [::-1] is missing).
get_messages_newest_first(rows, limit) ==
    LET desc == Reverse(rows)
    IN SubSeq(desc, 1, Min(limit, Len(desc)))

\* SELECT ... ORDER BY id DESC LIMIT ?, then rows[::-1]
get_messages(rows, limit) ==
    LET desc == Reverse(rows)
        fetched == SubSeq(desc, 1, Min(limit, Len(desc)))
    IN Reverse(fetched)

\* [{'username': u, 'encrypted': e, 'timestamp': t} for u, e, t in messages]
HistoryList(rows) ==
    [i \in DOMAIN rows |->
        [username |-> rows[i][1], encrypted |-> rows[i][2], timestamp |-> rows[i][3]]]

(* ----------------------------- handlers -------------------------------- *)

\* A faulty handler: it lacks the test of line 94 and announces whoever
\* goes, a member or not.
handle_disconnect_unguarded(st, sid) ==
    LET username == Get(st.user_sid_map, sid) IN
    EmitRoom([st EXCEPT !.users = @ \ {username},
                        !.user_sid_map = DelItem(@, sid)],
             "status", Str(username) \o " left.")

\* A faulty handler: it tests the username alone and lacks the del of
\* line 96, so the entry of user_sid_map stays.
handle_disconnect_keeps_registry(st, sid) ==
    LET username == Get(st.user_sid_map, sid) IN
    IF Truthy(username)
    THEN EmitRoom([st EXCEPT !.users = @ \ {username}],
                  "status", Str(username) \o " left.")
    ELSE st

\* handle_disconnect: request.sid = sid
handle_disconnect(st, sid) ==
    LET username == Get(st.user_sid_map, sid) IN
    IF Truthy(username) /\ username \in st.users
    THEN EmitRoom([st EXCEPT !.users = @ \ {username},
                             !.user_sid_map = DelItem(@, sid)],
                  "status", Str(username) \o " left.")
    ELSE st

\* The connection of sid goes away: the server runs the disconnect handler
\* and then drops the sid from its rooms.
CloseConnection(st, sid) ==
    IF st.conn[sid] # "open" THEN st
    ELSE LET closed == [st EXCEPT !.conn[sid] = "closed"]
             handled == handle_disconnect(closed, sid)
         IN [handled EXCEPT !.rooms = @ \ {sid}]

\* disconnect(sid), called by a handler
disconnect(st, sid) == CloseConnection(st, sid)

\* if sid in user_sid_map
AlreadyJoined(st, sid) == InMap(st.user_sid_map, sid)

\* A faulty capacity check: off by one (> for >=).
RoomFullOffByOne(st) == Len(st.user_sid_map) > RoomCapacity

\* if len(user_sid_map) >= 2
RoomFull(st) == Len(st.user_sid_map) >= RoomCapacity

\* A faulty uniqueness check, `username in user_sid_map`: a dict is searched
\* by its keys, the sids, and no username is among them.
NameTakenAmongKeys(st, username) == FALSE

\* if username in users
NameTaken(st, username) == username \in st.users

\* A faulty notice: the connection is registered under the new username.
reject_already_renames(st, sid, username) ==
    EmitSid([st EXCEPT !.user_sid_map = SetItem(@, sid, username)],
            "status", Str(username) \o " already joined.", sid)

\* emit('status', {'msg': f'{username} already joined.'}, room=sid); return
reject_already(st, sid, username) ==
    EmitSid(st, "status", Str(username) \o " already joined.", sid)

\* A faulty refusal: the notice is sent and the connection is kept.
reject_full_keeps_connection(st, sid) ==
    EmitSid(st, "status", "Room full.", sid)

\* emit('status', {'msg': 'Room full.'}, room=sid); disconnect(sid); return
reject_full(st, sid) ==
    disconnect(EmitSid(st, "status", "Room full.", sid), sid)

\* A faulty refusal: the notice is sent and the connection is kept.
reject_taken_keeps_connection(st, sid, username) ==
    EmitSid(st, "status", "Username " \o Str(username) \o " already in use.", sid)

\* emit('status', {'msg': f'Username {username} already in use.'}, room=sid);
\* disconnect(sid); return
reject_taken(st, sid, username) ==
    disconnect(EmitSid(st, "status", "Username " \o Str(username) \o " already in use.", sid), sid)

\* users.add(username)
add_user(st, username) == [st EXCEPT !.users = @ \cup {username}]

\* A faulty registration: line 81 is missing.
set_sid_skipped(st, sid, username) == st

\* user_sid_map[sid] = username
set_sid(st, sid, username) == [st EXCEPT !.user_sid_map = SetItem(@, sid, username)]

\* f'{username} joined.'
JoinNotice(username) == Str(username) \o " joined."

\* A faulty announcement: the notice goes to the joiner alone.
announce_join_to_joiner_only(st, sid, username) ==
    EmitSid(join_room(st, sid), "status", Str(username) \o " joined.", sid)

\* join_room(room); emit('status', {'msg': f'{username} joined.'}, room=room)
announce_join(st, sid, username) ==
    EmitRoom(join_room(st, sid), "status", Str(username) \o " joined.")

\* A faulty replay: the history goes to the room, not to the joiner alone.
send_history_to_room(st, sid) ==
    EmitRoom(st, "history", HistoryList(get_messages(st.messages, HistoryLimit)))

\* messages = get_messages(); socketio.emit('history', [...], room=sid)
send_history(st, sid) ==
    EmitSid(st, "history", HistoryList(get_messages(st.messages, HistoryLimit)), sid)

\* A faulty handler: the username is checked before the capacity.
handle_join_name_first(st, sid, data) ==
    LET username == data.username IN
    IF AlreadyJoined(st, sid) THEN reject_already(st, sid, username)
    ELSE IF NameTaken(st, username) THEN reject_taken(st, sid, username)
    ELSE IF RoomFull(st) THEN reject_full(st, sid)
    ELSE send_history(
             announce_join(set_sid(add_user(st, username), sid, username), sid, username),
             sid)

\* handle_join(data): request.sid = sid, the whole handler
handle_join(st, sid, data) ==
    LET username == data.username IN
    IF AlreadyJoined(st, sid) THEN reject_already(st, sid, username)
    ELSE IF RoomFull(st) THEN reject_full(st, sid)
    ELSE IF NameTaken(st, username) THEN reject_taken(st, sid, username)
    ELSE send_history(
             announce_join(set_sid(add_user(st, username), sid, username), sid, username),
             sid)

\* A faulty validation: the timestamp is not looked at.
MissingFieldsSkipsTimestamp(data) ==
    ~(Truthy(data.encrypted) /\ Truthy(data.username))

\* not (encrypted and timestamp and username)
MissingFields(data) ==
    ~(Truthy(data.encrypted) /\ Truthy(data.timestamp) /\ Truthy(data.username))

\* emit(name, data, room=room, include_self=False)
EmitRoomButSelf(st, name, data, sid) ==
    [st EXCEPT !.out = Append(@, [name |-> name, data |-> data,
                                  to |-> Recipients(st, st.rooms \ {sid})])]

\* A faulty handler: the broadcast leaves out the sender.
handle_message_no_echo(st, sid, data) ==
    IF ~InMap(st.user_sid_map, sid)
    THEN disconnect(EmitSid(st, "status", "You are not in the room.", sid), sid)
    ELSE IF MissingFields(data)
    THEN EmitSid(st, "status", "Invalid message: missing fields.", sid)
    ELSE EmitRoomButSelf(save_message(st, data.username, data.encrypted, data.timestamp),
                         "message", data, sid)

\* A faulty handler: a sender outside the room is told so and stays connected.
handle_message_keeps_stranger(st, sid, data) ==
    IF ~InMap(st.user_sid_map, sid)
    THEN EmitSid(st, "status", "You are not in the room.", sid)
    ELSE IF MissingFields(data)
    THEN EmitSid(st, "status", "Invalid message: missing fields.", sid)
    ELSE EmitRoom(save_message(st, data.username, data.encrypted, data.timestamp),
                  "message", data)

\* A faulty handler: it saves the message before it validates the fields.
handle_message_saves_first(st, sid, data) ==
    IF ~InMap(st.user_sid_map, sid)
    THEN disconnect(EmitSid(st, "status", "You are not in the room.", sid), sid)
    ELSE LET saved == save_message(st, data.username, data.encrypted, data.timestamp) IN
         IF MissingFields(data)
         THEN EmitSid(saved, "status", "Invalid message: missing fields.", sid)
         ELSE EmitRoom(saved, "message", data)

\* A faulty handler: it takes the username of an accepted payload into users.
handle_message_adds_user(st, sid, data) ==
    IF ~InMap(st.user_sid_map, sid)
    THEN disconnect(EmitSid(st, "status", "You are not in the room.", sid), sid)
    ELSE IF MissingFields(data)
    THEN EmitSid(st, "status", "Invalid message: missing fields.", sid)
    ELSE EmitRoom(save_message([st EXCEPT !.users = @ \cup {data.username}],
                               data.username, data.encrypted, data.timestamp),
                  "message", data)

\* handle_message(data): request.sid = sid
handle_message(st, sid, data) ==
    IF ~InMap(st.user_sid_map, sid)
    THEN disconnect(EmitSid(st, "status", "You are not in the room.", sid), sid)
    ELSE IF MissingFields(data)
    THEN EmitSid(st, "status", "Invalid message: missing fields.", sid)
    ELSE EmitRoom(save_message(st, data.username, data.encrypted, data.timestamp),
                  "message", data)

\* A faulty relay: the loop lacks `if other_sid != sid` and takes the first
\* entry of user_sid_map, the sender included.
handle_public_key_first_entry(st, sid, data) ==
    IF ~InMap(st.user_sid_map, sid) THEN st
    ELSE EmitSid(st, "public_key", data, st.user_sid_map[1].sid)

\* A faulty relay: the membership test is missing.
handle_public_key_for_anyone(st, sid, data) ==
    LET others == SelectSeq(st.user_sid_map, LAMBDA e : e.sid # sid) IN
    IF others = <<>> THEN st
    ELSE EmitSid(st, "public_key", data, others[1].sid)

\* handle_public_key(data): request.sid = sid
handle_public_key(st, sid, data) ==
    IF ~InMap(st.user_sid_map, sid) THEN st
    ELSE LET others == SelectSeq(st.user_sid_map, LAMBDA e : e.sid # sid) IN
         IF others = <<>> THEN st
         ELSE EmitSid(st, "public_key", data, others[1].sid)

(* ------------------ the events, each handler one step ------------------ *)

Init ==
    /\ users = {}
    /\ user_sid_map = <<>>
    /\ messages = <<>>
    /\ rooms = {}
    /\ conn = [s \in Sids |-> "new"]
    /\ out = <<>>
    /\ last = [ev |-> "init", sid |-> 0]
    /\ pc = [s \in Sids |-> "idle"]
    /\ loc = [s \in Sids |-> None]
    /\ inbox = [s \in Sids |-> <<>>]

\* A client connects and gets a fresh sid (sids are handed out in order).
ConnectEvent(s) ==
    /\ conn[s] = "new"
    /\ \A t \in Sids : t < s => conn[t] # "new"
    /\ Install([Cur EXCEPT !.conn[s] = "open"])
    /\ last' = [ev |-> "connect", sid |-> s]
    /\ UNCHANGED <<pc, loc>>

\* The client of s emits join {username: u}.
JoinEvent(s, u) ==
    /\ conn[s] = "open"
    /\ pc[s] = "idle"
    /\ Install(handle_join(Cur, s, [username |-> u]))
    /\ last' = [ev |-> "join", sid |-> s, username |-> u]
    /\ UNCHANGED <<pc, loc>>

\* The client of s goes away.
DisconnectEvent(s) ==
    /\ conn[s] = "open"
    /\ pc[s] = "idle"
    /\ Install(CloseConnection(Cur, s))
    /\ last' = [ev |-> "disconnect", sid |-> s]
    /\ UNCHANGED <<pc, loc>>

\* The client of s emits message d.
MessageEvent(s, d) ==
    /\ conn[s] = "open"
    /\ pc[s] = "idle"
    /\ LET st == handle_message(Cur, s, d) IN
       /\ Len(st.messages) <= MaxMsgs
       /\ Install(st)
    /\ last' = [ev |-> "message", sid |-> s, data |-> d]
    /\ UNCHANGED <<pc, loc>>

\* The client of s emits public_key k.
PublicKeyEvent(s, k) ==
    /\ conn[s] = "open"
    /\ pc[s] = "idle"
    /\ Install(handle_public_key(Cur, s, k))
    /\ last' = [ev |-> "public_key", sid |-> s, data |-> k]
    /\ UNCHANGED <<pc, loc>>

\* The events with nothing recorded of what the clients receive.
Connect(s) == ConnectEvent(s) /\ UNCHANGED inbox
Join(s, u) == JoinEvent(s, u) /\ UNCHANGED inbox
Disconnect(s) == DisconnectEvent(s) /\ UNCHANGED inbox
Message(s, d) == MessageEvent(s, d) /\ UNCHANGED inbox
PublicKey(s, k) == PublicKeyEvent(s, k) /\ UNCHANGED inbox

Next ==
    \E s \in Sids :
        \/ Connect(s)
        \/ \E u \in Usernames : Join(s, u)
        \/ Disconnect(s)
        \/ \E d \in Payloads : Message(s, d)
        \/ \E k \in Keys : PublicKey(s, k)

\* Every handler runs to its end before the next event is handled.
Spec == Init /\ [][Next]_vars

(* ------- join handlers of different connections, step by step ---------- *)
\* The handlers share users and user_sid_map without a lock; the server
\* runs the handler of each event on a thread of its own, so the steps of
\* the join handlers of different connections interleave.

JoinStep(s, st, next) ==
    /\ Install(st)
    /\ pc' = [pc EXCEPT ![s] = next]
    /\ last' = [ev |-> "join", sid |-> s, username |-> loc[s]]
    /\ UNCHANGED <<loc, inbox>>

\* username = data.get('username'); if sid in user_sid_map: ...
JoinBegin(s, u) ==
    /\ conn[s] = "open"
    /\ pc[s] = "idle"
    /\ loc' = [loc EXCEPT ![s] = u]
    /\ last' = [ev |-> "join", sid |-> s, username |-> u]
    /\ UNCHANGED inbox
    /\ IF AlreadyJoined(Cur, s)
       THEN Install(reject_already(Cur, s, u)) /\ UNCHANGED pc
       ELSE Install(Cur) /\ pc' = [pc EXCEPT ![s] = "capacity"]

\* if len(user_sid_map) >= 2: ...
JoinCapacity(s) ==
    /\ pc[s] = "capacity"
    /\ IF RoomFull(Cur)
       THEN JoinStep(s, reject_full(Cur, s), "idle")
       ELSE JoinStep(s, Cur, "unique")

\* if username in users: ...
JoinUnique(s) ==
    /\ pc[s] = "unique"
    /\ IF NameTaken(Cur, loc[s])
       THEN JoinStep(s, reject_taken(Cur, s, loc[s]), "idle")
       ELSE JoinStep(s, Cur, "add")

\* users.add(username)
JoinAddUser(s) ==
    /\ pc[s] = "add"
    /\ JoinStep(s, add_user(Cur, loc[s]), "map")

\* user_sid_map[sid] = username
JoinSetSid(s) ==
    /\ pc[s] = "map"
    /\ JoinStep(s, set_sid(Cur, s, loc[s]), "announce")

\* join_room(room); emit('status', ...)
JoinAnnounce(s) ==
    /\ pc[s] = "announce"
    /\ JoinStep(s, announce_join(Cur, s, loc[s]), "history")

\* messages = get_messages(); socketio.emit('history', ...)
JoinHistory(s) ==
    /\ pc[s] = "history"
    /\ JoinStep(s, send_history(Cur, s), "idle")

NextConc ==
    \E s \in Sids :
        \/ Connect(s)
        \/ \E u \in Usernames : JoinBegin(s, u)
        \/ JoinCapacity(s)
        \/ JoinUnique(s)
        \/ JoinAddUser(s)
        \/ JoinSetSid(s)
        \/ JoinAnnounce(s)
        \/ JoinHistory(s)
        \/ Disconnect(s)

SpecConc == Init /\ [][NextConc]_vars

(* ------------- a server started over a table that has rows ------------- *)
\* messages.db outlives the process: init_db creates the table only if it
\* does not exist, so a server starts with the rows earlier runs saved.

\* The i-th row saved by earlier runs.
StoredRow(i) ==
    <<IF i % 2 = 1 THEN "alice" ELSE "bob", "c" \o ToString(i), "t" \o ToString(i)>>

StoredRows(n) == [i \in 1 .. n |-> StoredRow(i)]

InitStored ==
    /\ users = {}
    /\ user_sid_map = <<>>
    /\ messages \in {StoredRows(n) : n \in 0 .. MaxRows}
    /\ rooms = {}
    /\ conn = [s \in Sids |-> "new"]
    /\ out = <<>>
    /\ last = [ev |-> "init", sid |-> 0]
    /\ pc = [s \in Sids |-> "idle"]
    /\ loc = [s \in Sids |-> None]
    /\ inbox = [s \in Sids |-> <<>>]

NextStored ==
    \E s \in Sids :
        \/ Connect(s)
        \/ \E u \in Usernames : Join(s, u)
        \/ Disconnect(s)

\* Atomic handlers; participants join and leave over a table of stored rows.
SpecStored == InitStored /\ [][NextStored]_vars

(* ------------------- a failing write to the database -------------------- *)
\* save_message has no try/except and neither has handle_message: when
\* sqlite3 raises in save_message (connect, execute or commit), the exception
\* leaves handle_message at line 114, before the emit of line 115.

\* handle_message(data) with save_message raising: request.sid = sid
handle_message_db_error(st, sid, data) ==
    IF ~InMap(st.user_sid_map, sid)
    THEN disconnect(EmitSid(st, "status", "You are not in the room.", sid), sid)
    ELSE IF MissingFields(data)
    THEN EmitSid(st, "status", "Invalid message: missing fields.", sid)
    ELSE st

\* The client of s emits message d, save_message is reached and raises.
MessageDbError(s, d) ==
    /\ conn[s] = "open"
    /\ pc[s] = "idle"
    /\ InMap(user_sid_map, s)
    /\ ~MissingFields(d)
    /\ Install(handle_message_db_error(Cur, s, d))
    /\ last' = [ev |-> "message", sid |-> s, data |-> d, failed |-> TRUE]
    /\ UNCHANGED <<pc, loc, inbox>>

NextFault ==
    \E s \in Sids :
        \/ Connect(s)
        \/ \E u \in Usernames : Join(s, u)
        \/ Disconnect(s)
        \/ \E d \in Payloads : Message(s, d)
        \/ \E d \in Payloads : MessageDbError(s, d)

\* Atomic handlers, with writes to the database that may fail.
SpecFault == Init /\ [][NextFault]_vars

\* What is recorded of an emission: the message broadcasts (line 115) and
\* the join notices (line 83).
Recorded(e) ==
    \/ e.name = "message"
    \/ e.name = "status" /\ \E u \in Usernames : e.data = JoinNotice(u)

\* The inboxes after the emissions of one handler have been delivered.
RECURSIVE Deliver(_, _)
Deliver(inb, emitted) ==
    IF emitted = <<>> THEN inb
    ELSE LET e == Head(emitted) IN
         Deliver(IF Recorded(e)
                 THEN [s \in Sids |->
                          IF s \in e.to
                          THEN Append(inb[s], [name |-> e.name, data |-> e.data])
                          ELSE inb[s]]
                 ELSE inb,
                 Tail(emitted))

\* The chat windows after a step: the emissions of the step are delivered,
\* and the window of a client whose connection has closed is gone.
Received ==
    inbox' = [s \in Sids |->
                 IF conn'[s] = "closed" THEN <<>> ELSE Deliver(inbox, out')[s]]

\* The events with what the clients receive recorded.
ClientConnect(s) == ConnectEvent(s) /\ Received
ClientJoin(s, u) == JoinEvent(s, u) /\ Received
ClientDisconnect(s) == DisconnectEvent(s) /\ Received
ClientMessage(s, d) == MessageEvent(s, d) /\ Received

\* The usernames and the payloads the clients of this view send.
ClientNames == {"alice", "bob"}
ClientPayloads ==
    {Payload("alice", "c1", "t1"), Payload("bob", "c1", "t1"), Payload("alice", "", "t1")}

NextClients ==
    \E s \in Sids :
        \/ ClientConnect(s)
        \/ \E u \in ClientNames : ClientJoin(s, u)
        \/ ClientDisconnect(s)
        \/ \E d \in ClientPayloads : ClientMessage(s, d)

\* Atomic handlers, with the clients' view of the room.
SpecClients == Init /\ [][NextClients]_vars

\* Flask-SocketIO runs every event handler in a thread of its own, and
\* handle_message takes no lock: between save_message (line 114) and emit
\* (line 115) of one handler, the handlers of other connections may run.

\* handle_message(data) up to and including save_message: lines 102-114
handle_message_until_save(st, sid, data) ==
    IF ~InMap(st.user_sid_map, sid)
    THEN disconnect(EmitSid(st, "status", "You are not in the room.", sid), sid)
    ELSE IF MissingFields(data)
    THEN EmitSid(st, "status", "Invalid message: missing fields.", sid)
    ELSE save_message(st, data.username, data.encrypted, data.timestamp)

\* The client of s emits message d; the handler runs up to the emit of
\* line 115, or to its end when it rejects the message.
MessageBegin(s, d) ==
    /\ conn[s] = "open"
    /\ pc[s] = "idle"
    /\ LET st == handle_message_until_save(Cur, s, d)
           accepted == InMap(user_sid_map, s) /\ ~MissingFields(d) IN
       /\ Len(st.messages) <= MaxMsgs
       /\ Install(st)
       /\ pc' = [pc EXCEPT ![s] = IF accepted THEN "emit" ELSE "idle"]
       /\ loc' = [loc EXCEPT ![s] = IF accepted THEN d ELSE None]
    /\ last' = [ev |-> "message", sid |-> s, data |-> d]
    /\ Received

\* emit('message', data, room=room): line 115 of the handler running for s
MessageBroadcast(s) ==
    /\ pc[s] = "emit"
    /\ Install(EmitRoom(Cur, "message", loc[s]))
    /\ pc' = [pc EXCEPT ![s] = "idle"]
    /\ loc' = [loc EXCEPT ![s] = None]
    /\ last' = [ev |-> "message", sid |-> s, data |-> loc[s]]
    /\ Received

NextRelay ==
    \E s \in Sids :
        \/ ClientConnect(s)
        \/ \E u \in ClientNames : ClientJoin(s, u)
        \/ ClientDisconnect(s)
        \/ \E d \in ClientPayloads : MessageBegin(s, d)
        \/ MessageBroadcast(s)

\* Message handlers that interleave, with the clients' view of the room.
SpecRelay == Init /\ [][NextRelay]_vars

\* handle_join takes no lock either: after join_room and the join notice
\* (lines 82-83) the handler reads the table (line 85) and then emits the
\* history (lines 86-88), and the message handlers of the members may run
\* in between.

\* A faulty handler: the join_room of line 82 is missing.
handle_join_until_announce_outside_room(st, sid, data) ==
    LET username == data.username IN
    IF AlreadyJoined(st, sid) THEN reject_already(st, sid, username)
    ELSE IF RoomFull(st) THEN reject_full(st, sid)
    ELSE IF NameTaken(st, username) THEN reject_taken(st, sid, username)
    ELSE EmitRoom(set_sid(add_user(st, username), sid, username),
                  "status", Str(username) \o " joined.")

\* handle_join(data) up to and including the join notice: lines 57-83
handle_join_until_announce(st, sid, data) ==
    LET username == data.username IN
    IF AlreadyJoined(st, sid) THEN reject_already(st, sid, username)
    ELSE IF RoomFull(st) THEN reject_full(st, sid)
    ELSE IF NameTaken(st, username) THEN reject_taken(st, sid, username)
    ELSE announce_join(set_sid(add_user(st, username), sid, username), sid, username)

\* The client of s emits join {username: u}; the handler runs up to the
\* read of line 85, or to its end when it refuses the join.
JoinEnter(s, u) ==
    /\ conn[s] = "open"
    /\ pc[s] = "idle"
    /\ LET st == handle_join_until_announce(Cur, s, [username |-> u])
           entered == ~InMap(user_sid_map, s) /\ InMap(st.user_sid_map, s) IN
       /\ Install(st)
       /\ pc' = [pc EXCEPT ![s] = IF entered THEN "read" ELSE "idle"]
    /\ last' = [ev |-> "join", sid |-> s, username |-> u]
    /\ UNCHANGED loc
    /\ Received

\* messages = get_messages(): line 85 of the handler running for s
JoinRead(s) ==
    /\ pc[s] = "read"
    /\ Install(Cur)
    /\ pc' = [pc EXCEPT ![s] = "replay"]
    /\ loc' = [loc EXCEPT ![s] = get_messages(messages, HistoryLimit)]
    /\ last' = [ev |-> "join", sid |-> s, username |-> Get(user_sid_map, s)]
    /\ UNCHANGED inbox

\* socketio.emit('history', [...], room=sid): lines 86-88 of the handler
\* running for s; the client keeps the history it receives.
JoinReplay(s) ==
    /\ pc[s] = "replay"
    /\ Install(EmitSid(Cur, "history", HistoryList(loc[s]), s))
    /\ pc' = [pc EXCEPT ![s] = "idle"]
    /\ loc' = [loc EXCEPT ![s] = None]
    /\ last' = [ev |-> "join", sid |-> s, username |-> Get(user_sid_map, s)]
    /\ inbox' = [inbox EXCEPT ![s] =
                    IF s \in out'[1].to
                    THEN Append(@, [name |-> "history", data |-> out'[1].data])
                    ELSE @]

\* The payloads the members send while others join: complete ones.
RelayPayloads == {Payload("alice", "c1", "t1"), Payload("bob", "c1", "t1")}

\* A member's message handler starts while fewer than MaxRelayMsgs rows
\* are saved.
RelayMessage(s, d) ==
    /\ Len(messages) < MaxRelayMsgs
    /\ MessageBegin(s, d)

NextJoinRelay ==
    \E s \in 1 .. MaxRelaySid :
        \/ ClientConnect(s)
        \/ \E u \in ClientNames : JoinEnter(s, u)
        \/ JoinRead(s)
        \/ JoinReplay(s)
        \/ ClientDisconnect(s)
        \/ \E d \in RelayPayloads : RelayMessage(s, d)
        \/ MessageBroadcast(s)

\* Join handlers and message handlers that interleave, with the clients'
\* view of the room.
SpecJoinRelay == Init /\ [][NextJoinRelay]_vars

\* A faulty endpoint: it reads the whole table, without the limit.
history_whole_table(st) == HistoryList(st.messages)

\* history(): the list that GET /history returns as JSON
history(st) == HistoryList(get_messages(st.messages, HistoryLimit))

\* A client requests GET /history; the response is kept in out.
HistoryRequest ==
    /\ Install([Cur EXCEPT !.out = <<[name |-> "response", data |-> history(Cur), to |-> {}]>>])
    /\ last' = [ev |-> "history", sid |-> 0]
    /\ UNCHANGED <<pc, loc, inbox>>

NextHttp ==
    \/ \E s \in Sids :
           \/ Connect(s)
           \/ \E u \in Usernames : Join(s, u)
           \/ Disconnect(s)
    \/ HistoryRequest

\* Atomic handlers and the HTTP endpoint, over a table of stored rows.
SpecHttp == InitStored /\ [][NextHttp]_vars

(* ======================= properties of the room ======================== *)

\* The status notice msg, as the one emission of a step, delivered to sid.
OnlyStatus(emitted, msg, sid) ==
    emitted = <<[name |-> "status", data |-> msg, to |-> {sid}]>>

\* The sids of the entries of user_sid_map whose connection is open.
LiveMembers == {s \in MapSids(user_sid_map) : conn[s] = "open"}

\* C1: with every handler run as one step, user_sid_map never holds more
\* than 2 entries.
MembersAtMostTwo == Cardinality(MapSids(user_sid_map)) <= 2

\* A third connection has just tried to join the full room.
MembersAtMostTwoWitness ==
    /\ last.ev = "join"
    /\ Len(user_sid_map) = 2
    /\ ~InMap(user_sid_map, last.sid)
    /\ Len(out) = 1 /\ out[1].data = "Room full."

\* C2: when the steps of the join handlers of different connections
\* interleave, membership never reaches 3.
InterleavedJoinsKeepCapacity ==
    \A a, b, c \in MapSids(user_sid_map) : a = b \/ b = c \/ a = c

InterleavedJoinsKeepNamesDistinct ==
    \A a, b \in MapSids(user_sid_map) :
        a # b => Get(user_sid_map, a) # Get(user_sid_map, b)

\* C5: a join by a connection that is no member, while user_sid_map holds 2
\* members, sends 'Room full.' to that connection alone, disconnects it and
\* leaves users and user_sid_map as they were.
RoomFullRejects ==
    [][(/\ last'.ev = "join"
        /\ ~InMap(user_sid_map, last'.sid)
        /\ Len(user_sid_map) >= 2)
       => (/\ OnlyStatus(out', "Room full.", last'.sid)
           /\ conn'[last'.sid] = "closed"
           /\ users' = users
           /\ user_sid_map' = user_sid_map
           /\ rooms' = rooms)]_vars

\* A join has just been refused for a full room whose 2 members are connected.
RoomFullRejectsWitness ==
    /\ last.ev = "join"
    /\ OnlyStatus(out, "Room full.", last.sid)
    /\ conn[last.sid] = "closed"
    /\ Cardinality(LiveMembers) = 2
    /\ ~InMap(user_sid_map, last.sid)

\* The refusal for a taken username, seen across one step: notice to the
\* requester alone, requester disconnected, membership as before.
RefusedAsDuplicate ==
    /\ OnlyStatus(out', "Username " \o Str(last'.username) \o " already in use.", last'.sid)
    /\ conn'[last'.sid] = "closed"
    /\ users' = users
    /\ user_sid_map' = user_sid_map
    /\ rooms' = rooms

\* C6 as stated: a join by a connection that is no member, under a username
\* an entry of user_sid_map carries, is refused as a duplicate username.
DuplicateUsernameRejectsAlways ==
    [][(/\ last'.ev = "join"
        /\ ~InMap(user_sid_map, last'.sid)
        /\ last'.username \in MapNames(user_sid_map))
       => RefusedAsDuplicate]_vars

\* C6, amended: a join by a connection that is no member, under a username
\* an entry of user_sid_map carries, while user_sid_map holds fewer than 2
\* entries, is refused as a duplicate username: 'already in use' to the
\* requester alone, requester disconnected, membership unchanged.
DuplicateUsernameRejects ==
    [][(/\ last'.ev = "join"
        /\ ~InMap(user_sid_map, last'.sid)
        /\ Len(user_sid_map) < 2
        /\ last'.username \in MapNames(user_sid_map))
       => RefusedAsDuplicate]_vars

\* A join under the name of a connected member has just been refused, and
\* that member is still joined.
DuplicateUsernameRejectsWitness ==
    /\ last.ev = "join"
    /\ OnlyStatus(out, "Username " \o Str(last.username) \o " already in use.", last.sid)
    /\ conn[last.sid] = "closed"
    /\ \E m \in LiveMembers : Get(user_sid_map, m) = last.username
    /\ last.username \in users

\* C7: once a participant has disconnected, a join by a new connection under
\* a username no connected member holds succeeds whenever fewer than 2
\* connected members remain (the slot and the name of whoever left are free).
FreedAfterDisconnect ==
    [][(/\ last'.ev = "join"
        /\ ~InMap(user_sid_map, last'.sid)
        /\ Cardinality(LiveMembers) < 2
        /\ \A m \in LiveMembers : Get(user_sid_map, m) # last'.username)
       => (/\ InMap(user_sid_map', last'.sid)
           /\ Get(user_sid_map', last'.sid) = last'.username
           /\ conn'[last'.sid] = "open")]_vars

\* C8: no membership outlives its connection: a closed connection has no
\* entry in user_sid_map, and users holds only names of connected members.
NoMembershipOutlivesConnection ==
    /\ \A s \in Sids : conn[s] = "closed" => ~InMap(user_sid_map, s)
    /\ users \subseteq {Get(user_sid_map, m) : m \in LiveMembers}

\* The payload has username, encrypted and timestamp, none of them empty.
FieldsPass(d) ==
    /\ d.username \notin {None, ""}
    /\ d.encrypted \notin {None, ""}
    /\ d.timestamp \notin {None, ""}

\* The row the messages table gets for payload d.
RowOf(d) == <<d.username, d.encrypted, d.timestamp>>

EmptyCiphertextAccepted ==
    [][(/\ last'.ev = "message"
        /\ InMap(user_sid_map, last'.sid)
        /\ last'.data.username # None
        /\ last'.data.timestamp # None
        /\ last'.data.encrypted = "")
       => (/\ messages' = Append(messages, RowOf(last'.data))
           /\ out' = <<[name |-> "message", data |-> last'.data, to |-> LiveMembers]>>)]_vars

\* The payload lacks username, encrypted or timestamp.
LacksField(d) == d.username = None \/ d.encrypted = None \/ d.timestamp = None

StrangerMessageRejected ==
    [][(/\ last'.ev = "message"
        /\ ~InMap(user_sid_map, last'.sid))
       => (/\ OnlyStatus(out', "You are not in the room.", last'.sid)
           /\ conn'[last'.sid] = "closed"
           /\ messages' = messages
           /\ users' = users
           /\ user_sid_map' = user_sid_map)]_vars

\* A complete message of a connection that never joined has just been
\* refused, with two members in the room.
StrangerMessageRejectedWitness ==
    /\ last.ev = "message"
    /\ FieldsPass(last.data)
    /\ ~InMap(user_sid_map, last.sid)
    /\ conn[last.sid] = "closed"
    /\ Cardinality(LiveMembers) = 2
    /\ OnlyStatus(out, "You are not in the room.", last.sid)

\* C15: a public_key event of a member is forwarded, payload unchanged, to
\* the other connected member and to nobody else; with no other connected
\* member it reaches no one.
PublicKeyToOtherOnly ==
    [][(/\ last'.ev = "public_key"
        /\ InMap(user_sid_map, last'.sid))
       => LET others == LiveMembers \ {last'.sid} IN
          IF others # {}
          THEN out' = <<[name |-> "public_key", data |-> last'.data, to |-> others]>>
          ELSE \A i \in DOMAIN out' : out'[i].to = {}]_vars

\* A key of one of two connected members has just been forwarded to the other.
PublicKeyToOtherOnlyWitness ==
    /\ last.ev = "public_key"
    /\ last.sid \in LiveMembers
    /\ Cardinality(LiveMembers) = 2
    /\ out = <<[name |-> "public_key", data |-> last.data, to |-> LiveMembers \ {last.sid}]>>

\* C16: a public_key event of a connection that is no member is ignored:
\* nothing is emitted, the connection stays open, the room state is as before.
StrangerPublicKeyIgnored ==
    [][(/\ last'.ev = "public_key"
        /\ ~InMap(user_sid_map, last'.sid))
       => (/\ out' = <<>>
           /\ conn' = conn
           /\ users' = users
           /\ user_sid_map' = user_sid_map
           /\ rooms' = rooms
           /\ messages' = messages)]_vars

\* A key of a connection that never joined has just been ignored, with a
\* member in the room.
StrangerPublicKeyIgnoredWitness ==
    /\ last.ev = "public_key"
    /\ ~InMap(user_sid_map, last.sid)
    /\ conn[last.sid] = "open"
    /\ LiveMembers # {}
    /\ out = <<>>

\* C18: an accepted message is broadcast once, payload unchanged, to every
\* connected member, the sender included.
AcceptedMessageBroadcast ==
    [][(/\ last'.ev = "message"
        /\ InMap(user_sid_map, last'.sid)
        /\ FieldsPass(last'.data))
       => (/\ out' = <<[name |-> "message", data |-> last'.data, to |-> LiveMembers]>>
           /\ last'.sid \in LiveMembers)]_vars

\* A message has just been broadcast to the two connected members.
AcceptedMessageBroadcastWitness ==
    /\ last.ev = "message"
    /\ Cardinality(LiveMembers) = 2
    /\ last.sid \in LiveMembers
    /\ out = <<[name |-> "message", data |-> last.data, to |-> LiveMembers]>>

\* C20: a join that passes the three checks adds the username to users and
\* the connection to user_sid_map, sends '<username> joined.' to every
\* connected member, the new one included, and sends the history event to
\* the joining connection alone.
SuccessfulJoinEffects ==
    [][(/\ last'.ev = "join"
        /\ ~InMap(user_sid_map, last'.sid)
        /\ Len(user_sid_map) < 2
        /\ last'.username \notin MapNames(user_sid_map))
       => (/\ users' = users \cup {last'.username}
           /\ user_sid_map' =
                 Append(user_sid_map, [sid |-> last'.sid, username |-> last'.username])
           /\ conn'[last'.sid] = "open"
           /\ Len(out') = 2
           /\ out'[1] = [name |-> "status", data |-> Str(last'.username) \o " joined.",
                         to |-> LiveMembers \cup {last'.sid}]
           /\ out'[2].name = "history"
           /\ out'[2].to = {last'.sid})]_vars

\* A second participant has just joined a room that holds a connected member.
SuccessfulJoinEffectsWitness ==
    /\ last.ev = "join"
    /\ Cardinality(LiveMembers) = 2
    /\ last.sid \in LiveMembers
    /\ Len(out) = 2
    /\ out[1].to = LiveMembers
    /\ out[2].name = "history" /\ out[2].to = {last.sid}

\* C14: when the write of a member's valid message to the database fails,
\* the message is still broadcast to every connected member, and no error
\* notice goes to any connection.
PersistFailureStillBroadcasts ==
    [][(/\ last'.ev = "message"
        /\ "failed" \in DOMAIN last')
       => out' = <<[name |-> "message", data |-> last'.data, to |-> LiveMembers]>>]_vars

\* The step is a join of last'.sid that made it a member.
JoinSucceeds ==
    /\ last'.ev = "join"
    /\ ~InMap(user_sid_map, last'.sid)
    /\ InMap(user_sid_map', last'.sid)

\* C13 as stated: the history event sent to a successful joiner holds
\* exactly the N rows saved before the join, oldest first, for every N.
HistoryIsWholeLog ==
    [][JoinSucceeds
       => (/\ Len(out') = 2
           /\ out'[2].name = "history"
           /\ out'[2].data = HistoryList(messages))]_vars

\* C13, amended: the history event sent to a successful joiner holds the
\* min(N, 50) most recently saved of the N rows saved before the join,
\* oldest first.
HistoryIsRecentLog ==
    [][JoinSucceeds
       => (/\ Len(out') = 2
           /\ out'[2].name = "history"
           /\ LET N == Len(messages) IN
              out'[2].data = SubSeq(HistoryList(messages), N - Min(N, HistoryLimit) + 1, N))]_vars

\* A participant has just joined over a table of more than 50 rows and got
\* a history of 50.
HistoryIsRecentLogWitness ==
    /\ last.ev = "join"
    /\ last.sid \in LiveMembers
    /\ Len(messages) > HistoryLimit
    /\ Len(out) = 2
    /\ out[2].name = "history"
    /\ out[2].to = {last.sid}
    /\ Len(out[2].data) = HistoryLimit

\* The message broadcasts in the chat window of s, in the order received.
MessagesSeen(s) ==
    LET m == SelectSeq(inbox[s], LAMBDA e : e.name = "message")
    IN [k \in DOMAIN m |-> m[k].data]

\* seq is a run of consecutive elements of log.
IsRun(seq, log) ==
    \E i \in 1..(Len(log) + 1) : \E j \in 0..Len(log) : seq = SubSeq(log, i, j)

\* a is the end of b.
IsSuffix(a, b) ==
    /\ Len(a) <= Len(b)
    /\ a = SubSeq(b, Len(b) - Len(a) + 1, Len(b))

\* C17: every client has received its message broadcasts in the order in
\* which the messages were accepted (the order of the rows of the messages
\* table, without gaps), and of two members one has received what the other
\* has, preceded by the broadcasts of the time before the other joined: no
\* two members have received two messages in opposite orders.  Handlers
\* that interleave between save_message and emit break it.
BroadcastsInAcceptanceOrder ==
    /\ \A s \in Sids : IsRun(MessagesSeen(s), HistoryList(messages))
    /\ \A a, b \in LiveMembers :
           \/ IsSuffix(MessagesSeen(a), MessagesSeen(b))
           \/ IsSuffix(MessagesSeen(b), MessagesSeen(a))

\* The chat window of s holds the notice that u joined.
HasJoinNotice(s, u) ==
    \E k \in DOMAIN inbox[s] :
        /\ inbox[s][k].name = "status"
        /\ inbox[s][k].data = JoinNotice(u)

\* C19 as stated: once two participants with different usernames have both
\* joined, each has been sent a join notice that names the other.
EachToldOfTheOther ==
    \A i, j \in DOMAIN user_sid_map :
        i # j => HasJoinNotice(user_sid_map[i].sid, user_sid_map[j].username)

\* C19, amended: once two participants with different usernames have both
\* joined, the one who joined first has been sent the join notice that names
\* the second, and the one who joined second has been sent its own join
\* notice and none that names the first.
EarlierToldOfTheLater ==
    \A i, j \in DOMAIN user_sid_map :
        i < j => /\ HasJoinNotice(user_sid_map[i].sid, user_sid_map[j].username)
                 /\ HasJoinNotice(user_sid_map[j].sid, user_sid_map[j].username)
                 /\ ~HasJoinNotice(user_sid_map[j].sid, user_sid_map[i].username)

\* alice and bob have both joined, and the first to join has been told of the
\* second.
EarlierToldOfTheLaterWitness ==
    /\ Len(user_sid_map) = 2
    /\ MapNames(user_sid_map) = {"alice", "bob"}
    /\ HasJoinNotice(user_sid_map[1].sid, user_sid_map[2].username)

\* The step handles a join that the capacity check or the uniqueness check
\* refuses.
JoinRefused ==
    /\ last'.ev = "join"
    /\ ~InMap(user_sid_map, last'.sid)
    /\ (Len(user_sid_map) >= RoomCapacity \/ last'.username \in users)

\* The connection of s is closed and s is neither a member nor in the room.
TurnedAway(s) ==
    /\ conn[s] = "closed"
    /\ ~InMap(user_sid_map, s)
    /\ s \notin rooms

\* The same of s after the step.
TurnedAwayNext(s) ==
    /\ conn'[s] = "closed"
    /\ ~InMap(user_sid_map', s)
    /\ s \notin rooms'

\* C21: a connection whose join is refused (room full or username taken) is
\* closed without having become a member, gets no history and no message
\* in that step, and from then on stays closed and outside the room and is
\* sent no history event and no message broadcast, whatever step follows.
RefusedNeverMember ==
    [][/\ JoinRefused
          => (/\ TurnedAwayNext(last'.sid)
              /\ \A k \in DOMAIN out' : out'[k].name = "status")
       /\ \A s \in Sids :
              TurnedAway(s)
              => (/\ TurnedAwayNext(s)
                  /\ \A k \in DOMAIN out' : s \notin out'[k].to)]_vars

\* A member has just sent a message that was broadcast, after a connection
\* was turned away from the full room.
RefusedNeverMemberWitness ==
    /\ last.ev = "message"
    /\ Len(out) = 1 /\ out[1].name = "message"
    /\ Cardinality(LiveMembers) = 2
    /\ \E s \in Sids : TurnedAway(s)

\* The step handles a message that is refused: the sender is no member, or
\* a field is missing.
MessageRefused ==
    /\ last'.ev = "message"
    /\ (~InMap(user_sid_map, last'.sid) \/ ~FieldsPass(last'.data))

\* C22: a step that refuses a join (already joined, room full, username
\* taken) or a message (sender not in the room, missing fields) emits one
\* status notice, and no event of the step is delivered to any connection
\* but the offending one.
ErrorsToOffenderOnly ==
    [][((last'.ev = "join" /\ InMap(user_sid_map, last'.sid)) \/ JoinRefused \/ MessageRefused)
       => (/\ Len(out') = 1
           /\ out'[1].name = "status"
           /\ out'[1].to = {last'.sid})]_vars

\* A member has just had a message refused for a missing field while the
\* other member is connected.
ErrorsToOffenderOnlyWitness ==
    /\ last.ev = "message"
    /\ OnlyStatus(out, "Invalid message: missing fields.", last.sid)
    /\ Cardinality(LiveMembers) = 2

\* C23: a join on a connection that is a member, under whatever username and
\* with whatever number of members, sends '<username> already joined.' to
\* that connection alone and changes nothing: users, user_sid_map, the
\* room, the connections and the messages table stay as they are.
AlreadyJoinedOnlyInforms ==
    [][(last'.ev = "join" /\ InMap(user_sid_map, last'.sid))
       => (/\ OnlyStatus(out', Str(last'.username) \o " already joined.", last'.sid)
           /\ users' = users
           /\ user_sid_map' = user_sid_map
           /\ rooms' = rooms
           /\ conn' = conn
           /\ messages' = messages)]_vars

\* A member of the full room has just asked to join under another username.
AlreadyJoinedOnlyInformsWitness ==
    /\ last.ev = "join"
    /\ last.sid \in LiveMembers
    /\ Get(user_sid_map, last.sid) # last.username
    /\ OnlyStatus(out, Str(last.username) \o " already joined.", last.sid)
    /\ Len(user_sid_map) = RoomCapacity

\* C24: the disconnect of a connection that is no member changes nothing and
\* emits nothing, and the disconnect that follows a refused join leaves
\* users, user_sid_map and the messages table as they are and announces no
\* leave: the member holding the contested username stays.
StrangerDisconnectIsNoOp ==
    [][/\ (last'.ev = "disconnect" /\ ~InMap(user_sid_map, last'.sid))
          => (/\ out' = <<>>
              /\ users' = users
              /\ user_sid_map' = user_sid_map
              /\ messages' = messages
              /\ rooms' = rooms)
       /\ JoinRefused
          => (/\ Len(out') = 1
              /\ users' = users
              /\ user_sid_map' = user_sid_map
              /\ messages' = messages)]_vars

\* A connection that never joined has just disconnected while a member is
\* connected.
StrangerDisconnectIsNoOpWitness ==
    /\ last.ev = "disconnect"
    /\ ~InMap(user_sid_map, last.sid)
    /\ out = <<>>
    /\ LiveMembers # {}

\* C25: once the disconnect event of a connection has been handled,
\* handling it again changes nothing and emits nothing: the state is the one
\* a single disconnect leaves, and the leave notice went out at most once.
LeaveIsIdempotent ==
    [][last'.ev = "disconnect"
       => handle_disconnect(Cur', last'.sid) = Cur']_vars

\* A member has just disconnected and the leave notice has gone to the
\* member who remains.
LeaveIsIdempotentWitness ==
    /\ last.ev = "disconnect"
    /\ Len(out) = 1
    /\ out[1].name = "status"
    /\ out[1].to # {}
    /\ handle_disconnect(Cur, last.sid) = Cur

\* C26: when a connection that is a member disconnects, its username leaves
\* users, its entry leaves user_sid_map, '<username> left.' goes to the
\* members who remain, and the entries of the other members stay.
LeaveRemovesMember ==
    [][(last'.ev = "disconnect" /\ InMap(user_sid_map, last'.sid))
       => LET sid == last'.sid
              username == Get(user_sid_map, sid) IN
          /\ user_sid_map' = DelItem(user_sid_map, sid)
          /\ users' = users \ {username}
          /\ Len(out') = 1
          /\ out'[1].name = "status"
          /\ out'[1].data = Str(username) \o " left."
          /\ out'[1].to = LiveMembers \ {sid}]_vars

\* C27: when the handlers of the members' messages interleave, the members
\* are sent the messages in the order of their rows in the messages table:
\* of two broadcasts a client has received, the row of the earlier precedes
\* a row of the later.
LogOrderIsBroadcastOrder ==
    \A s \in Sids :
        LET seen == MessagesSeen(s)
            log == HistoryList(messages) IN
        \A i, j \in DOMAIN seen :
            i < j => \E p, q \in DOMAIN log :
                         /\ p < q
                         /\ log[p] = seen[i]
                         /\ log[q] = seen[j]

\* a is the beginning of b.
IsPrefix(a, b) ==
    /\ Len(a) <= Len(b)
    /\ a = SubSeq(b, 1, Len(a))

\* C28: the messages table only grows at its end: every step leaves the rows
\* it found, in their places, and adds at most one; a step that accepts a
\* message adds exactly its row as the last one, whether or not the table
\* holds an equal row already.
LogIsAppendOnly ==
    [][/\ IsPrefix(messages, messages')
       /\ Len(messages') <= Len(messages) + 1
       /\ (/\ last'.ev = "message"
           /\ InMap(user_sid_map, last'.sid)
           /\ FieldsPass(last'.data))
          => (/\ Len(messages') = Len(messages) + 1
              /\ messages'[Len(messages')] = RowOf(last'.data))]_vars

\* The same message has just been accepted a second time and the table
\* holds its row twice.
LogIsAppendOnlyWitness ==
    /\ last.ev = "message"
    /\ Len(out) = 1 /\ out[1].name = "message"
    /\ Len(messages) = 2
    /\ messages[1] = messages[2]
    /\ messages[2] = RowOf(last.data)

\* The limits get_messages is asked with here: none, few, the default of
\* line 28, as many rows as the table can hold, and more.
Limits == {0, 1, 2, HistoryLimit, MaxRows, MaxRows + 1}

\* C29: get_messages(limit) returns the min(limit, N) rows saved last of the
\* N rows of the table, oldest first: the end of the table, in its order.
RecentIsLogTail ==
    \A limit \in Limits :
        LET N == Len(messages) IN
        get_messages(messages, limit) = SubSeq(messages, N - Min(limit, N) + 1, N)

\* A participant has just joined over a table of more rows than the default
\* limit, and the history is what get_messages returns: not the first row.
RecentIsLogTailWitness ==
    /\ last.ev = "join"
    /\ Len(messages) = MaxRows
    /\ Len(out) = 2
    /\ out[2].data = HistoryList(get_messages(messages, HistoryLimit))
    /\ get_messages(messages, HistoryLimit)[1] = messages[MaxRows - HistoryLimit + 1]
    /\ get_messages(messages, 1) = <<messages[MaxRows]>>

\* C30: a join by a connection that is no member, while user_sid_map holds 2
\* members and one of them, connected, carries the requested username, is
\* refused with 'Room full.', not with 'already in use': the capacity is
\* checked before the username.
FullBeforeDuplicate ==
    [][(/\ last'.ev = "join"
        /\ ~InMap(user_sid_map, last'.sid)
        /\ Len(user_sid_map) = RoomCapacity
        /\ \E m \in LiveMembers : Get(user_sid_map, m) = last'.username)
       => (/\ OnlyStatus(out', "Room full.", last'.sid)
           /\ conn'[last'.sid] = "closed")]_vars

\* A join under the username of a connected member of the full room has
\* just been refused with 'Room full.'.
FullBeforeDuplicateWitness ==
    /\ last.ev = "join"
    /\ OnlyStatus(out, "Room full.", last.sid)
    /\ conn[last.sid] = "closed"
    /\ Len(user_sid_map) = RoomCapacity
    /\ \E m \in LiveMembers : Get(user_sid_map, m) = last.username

\* C31: GET /history returns the list that a join in the same state sends as
\* the history event, and serving it leaves users, user_sid_map, the room,
\* the connections and the messages table as they are.
HistoryEndpointProjects ==
    [][/\ JoinSucceeds => out'[2].data = history(Cur)
       /\ last'.ev = "history"
          => (/\ Len(out') = 1
              /\ out'[1].data = history(Cur)
              /\ users' = users
              /\ user_sid_map' = user_sid_map
              /\ rooms' = rooms
              /\ conn' = conn
              /\ messages' = messages)]_vars

\* GET /history has just been served over a table of more rows than the
\* limit, with a member in the room.
HistoryEndpointProjectsWitness ==
    /\ last.ev = "history"
    /\ Len(messages) > HistoryLimit
    /\ Len(out) = 1
    /\ out[1].name = "response"
    /\ Len(out[1].data) = HistoryLimit
    /\ LiveMembers # {}

\* How often x occurs in seq.
Count(seq, x) == Cardinality({i \in DOMAIN seq : seq[i] = x})

\* The histories in the chat window of s, one after the other.
HistorySeen(s) ==
    LET h == SelectSeq(inbox[s], LAMBDA e : e.name = "history")
    IN IF h = <<>> THEN <<>> ELSE h[1].data

\* The join of s is complete: s is a connected member, has been sent its
\* history, and no handler is running for it.
JoinComplete(s) ==
    /\ s \in LiveMembers
    /\ pc[s] = "idle"
    /\ \E k \in DOMAIN inbox[s] : inbox[s][k].name = "history"

\* How many handlers have saved the message d and not yet broadcast it.
Pending(d) == Cardinality({t \in Sids : pc[t] = "emit" /\ loc[t] = d})

\* How often the message d has reached s, in its history or as a broadcast.
Reached(s, d) == Count(HistorySeen(s), d) + Count(MessagesSeen(s), d)

\* C35: when handlers of messages and of joins interleave, a participant
\* whose join is complete has missed no message: each row of the messages
\* table whose broadcast has gone out has reached it, in its history or as
\* a broadcast.
JoinerMissesNothing ==
    \A s \in Sids : \A d \in RelayPayloads :
        JoinComplete(s)
        => Reached(s, d) >= Count(HistoryList(messages), d) - Pending(d)

\* A participant has been sent a message while its join was under way,
\* before its history, and the history does not hold that message.
JoinerMissesNothingWitness ==
    \E s \in Sids :
        /\ JoinComplete(s)
        /\ Len(messages) = 1
        /\ HistorySeen(s) = <<>>
        /\ \E j, k \in DOMAIN inbox[s] :
               /\ j < k
               /\ inbox[s][j].name = "message"
               /\ inbox[s][k].name = "history"

\* C36: when handlers of messages and of joins interleave, no message
\* reaches a participant twice: a message is in its history and among its
\* broadcasts together no more often than the messages table holds it.
JoinerGetsNothingTwice ==
    \A s \in Sids : \A d \in RelayPayloads :
        Reached(s, d) <= Count(HistoryList(messages), d)

\* C32: handling a message or a public key, whatever comes of it, leaves
\* users and user_sid_map as they are, and handling a public key leaves the
\* messages table as it is.
RelaysKeepMembership ==
    [][/\ last'.ev \in {"message", "public_key"}
          => (users' = users /\ user_sid_map' = user_sid_map)
       /\ last'.ev = "public_key" => messages' = messages]_vars

\* A member of the full room has just had its public key relayed, with a
\* row in the messages table.
RelaysKeepMembershipWitness ==
    /\ last.ev = "public_key"
    /\ Len(out) = 1
    /\ out[1].name = "public_key"
    /\ out[1].to # {}
    /\ Len(user_sid_map) = RoomCapacity
    /\ Len(messages) >= 1

MessagesCarrySenderName ==
    [][(/\ last'.ev = "message"
        /\ InMap(user_sid_map, last'.sid)
        /\ FieldsPass(last'.data))
       => (/\ messages'[Len(messages')][1] = Get(user_sid_map, last'.sid)
           /\ out'[1].data.username = Get(user_sid_map, last'.sid))]_vars

====
